---- MODULE Spec2Model ----
(***************************************************************************)
(* NFA -> DFA conversion (subset construction with lambda elimination and  *)
(* trap-state synthesis) followed by DFA minimisation, as implemented in   *)
(* src/engine.js and driven by the form handlers of src/unnamed/part_000.  *)
(*                                                                         *)
(* A JavaScript string is modelled as the sequence of its characters, each *)
(* character a one-character TLA+ string, so that startsWith, substring,   *)
(* split, join, String.prototype.includes and the default sort order are   *)
(* computed as the engine computes them.  A JavaScript array is a sequence.*)
(***************************************************************************)
EXTENDS Integers, Sequences, FiniteSets, TLC

(***************************************************************************)
(* Bounds of the model.                                                    *)
(***************************************************************************)
\* number of transition rows filled in on the form
MaxRows == 2
\* length of the input words on which two automata are compared
MaxWordLen == 3
\* depth of nested fetch_E_Closure calls the call stack can hold
MaxCallDepth == 6

(***************************************************************************)
(* Strings.                                                                *)
(***************************************************************************)
\* UTF-16 code unit of a character: the order Array.prototype.sort() uses
CharCode(c) ==
  CASE c = "," -> 44
    [] c = "0" -> 48
    [] c = "1" -> 49
    [] c = "A" -> 65
    [] c = "B" -> 66
    [] c = "P" -> 80
    [] c = "R" -> 82
    [] c = "T" -> 84
    [] c = "{" -> 123
    [] c = "}" -> 125

\* a < b in JavaScript's string comparison (lexicographic by code unit)
RECURSIVE StrLess(_, _)
StrLess(a, b) ==
  IF b = <<>> THEN FALSE
  ELSE IF a = <<>> THEN TRUE
  ELSE IF CharCode(Head(a)) # CharCode(Head(b))
       THEN CharCode(Head(a)) < CharCode(Head(b))
  ELSE StrLess(Tail(a), Tail(b))

\* String.prototype.includes: sub occurs in str as a contiguous substring
StrIncludes(str, sub) ==
  \E i \in 0..(Len(str) - Len(sub)) : SubSeq(str, i + 1, i + Len(sub)) = sub

\* Array.prototype.includes
ArrIncludes(arr, x) == \E i \in 1..Len(arr) : arr[i] = x

\* String.prototype.split(','): the pieces between the commas
RECURSIVE SplitFrom(_, _)
SplitFrom(str, cur) ==
  IF str = <<>> THEN <<cur>>
  ELSE IF Head(str) = "," THEN <<cur>> \o SplitFrom(Tail(str), <<>>)
  ELSE SplitFrom(Tail(str), Append(cur, Head(str)))

StrSplit(str) == SplitFrom(str, <<>>)

\* Array.prototype.join(',')
RECURSIVE StrJoin(_)
StrJoin(arr) ==
  IF arr = <<>> THEN <<>>
  ELSE IF Len(arr) = 1 THEN arr[1]
  ELSE arr[1] \o <<",">> \o StrJoin(Tail(arr))

\* str.replace(/,/g, '')
RECURSIVE StripCommas(_)
StripCommas(str) ==
  IF str = <<>> THEN <<>>
  ELSE IF Head(str) = "," THEN StripCommas(Tail(str))
  ELSE <<Head(str)>> \o StripCommas(Tail(str))

\* Array.prototype.sort() with the default comparison (stable insertion)
RECURSIVE InsertSorted(_, _)
InsertSorted(sorted, x) ==
  IF sorted = <<>> THEN <<x>>
  ELSE IF StrLess(x, Head(sorted)) THEN <<x>> \o sorted
  ELSE <<Head(sorted)>> \o InsertSorted(Tail(sorted), x)

RECURSIVE ArrSort(_)
ArrSort(arr) ==
  IF arr = <<>> THEN <<>>
  ELSE InsertSorted(ArrSort(SubSeq(arr, 1, Len(arr) - 1)), arr[Len(arr)])

\* the elements of an array, as a set
Elems(arr) == {arr[i] : i \in 1..Len(arr)}

\* push x unless the array includes it already
PushNew(arr, x) == IF ArrIncludes(arr, x) THEN arr ELSE Append(arr, x)

RECURSIVE PushAllNew(_, _)
PushAllNew(arr, xs) ==
  IF xs = <<>> THEN arr ELSE PushAllNew(PushNew(arr, Head(xs)), Tail(xs))

(***************************************************************************)
(* State names and symbols.                                                *)
(***************************************************************************)
TRAP == <<"T", "R", "A", "P">>
\* the lambda glyph '\u03BB'
LambdaGlyph == "lambda"

(***************************************************************************)
(* State-set codec.                                                        *)
(***************************************************************************)
isMultiState(state) ==
  /\ Len(state) >= 1
  /\ state[1] = "{"
  /\ state[Len(state)] = "}"

\* an array of names for a multi-state, the string itself otherwise
separateStates(state) ==
  IF isMultiState(state)
    THEN [isArray |-> TRUE, arr |-> StrSplit(SubSeq(state, 2, Len(state) - 1)), str |-> <<>>]
    ELSE [isArray |-> FALSE, arr |-> <<>>, str |-> state]

\* x.includes(fs) on the value separateStates returns: Array.prototype.includes
\* on an array, String.prototype.includes on a string
SepIncludes(sep, fs) ==
  IF sep.isArray THEN ArrIncludes(sep.arr, fs) ELSE StrIncludes(sep.str, fs)

\* null is modelled as the empty string, which is falsy as null is
combineStates(states) ==
  IF Len(states) = 0 THEN <<>>
  ELSE IF Len(states) = 1 THEN states[1]
  ELSE <<"{">> \o StrJoin(ArrSort(states)) \o <<"}">>

formatDotState(stateStr) ==
  IF isMultiState(stateStr)
    THEN StripCommas(SubSeq(stateStr, 2, Len(stateStr) - 1))
    ELSE stateStr

arraysEqual(a, b) ==
  /\ Len(a) = Len(b)
  /\ \A i \in 1..Len(a) : a[i] = b[i]

(***************************************************************************)
(* Transitions and automata.                                               *)
(***************************************************************************)
Transition(state, nextStates, symbol) ==
  [state |-> state, nextStates |-> nextStates, symbol |-> symbol]

NFA(initialState, finalStates, states, alphabet, transitions) ==
  [initialState |-> initialState, finalStates |-> finalStates, states |-> states,
   alphabet |-> alphabet, transitions |-> transitions]

RECURSIVE findNextStates(_, _, _)
findNextStates(state, symbol, transitions) ==
  IF transitions = <<>> THEN <<>>
  ELSE LET n == Len(transitions)
           t == transitions[n]
           acc == findNextStates(state, symbol, SubSeq(transitions, 1, n - 1))
       IN IF t.state = state /\ t.symbol = symbol
            THEN PushAllNew(acc, t.nextStates)
            ELSE acc

(***************************************************************************)
(* Closure engine.                                                         *)
(***************************************************************************)
\* t.symbol.trim() === '' || t.symbol.trim() === '\u03BB'
isLambdaSymbol(symbol) == symbol = "" \/ symbol = LambdaGlyph

\* what a call returns: a value, or the RangeError the engine throws when
\* the call stack is exhausted
Returned(value) == [threw |-> FALSE, value |-> value]
RangeError == [threw |-> TRUE, value |-> <<>>]

\* fetch_E_Closure(state, transitions), called with depth - 1 calls of it
\* already on the call stack.  eClosureScan is the body of the two nested
\* forEach loops from transition ti, next state ni on.
RECURSIVE fetch_E_Closure_at(_, _, _)
RECURSIVE eClosureScan(_, _, _, _, _, _)
eClosureScan(state, transitions, ti, ni, eClosure, depth) ==
  IF ti > Len(transitions) THEN Returned(eClosure)
  ELSE LET t == transitions[ti] IN
    IF ~(isLambdaSymbol(t.symbol) /\ state = t.state) \/ ni > Len(t.nextStates)
      THEN eClosureScan(state, transitions, ti + 1, 1, eClosure, depth)
    ELSE LET nextState == t.nextStates[ni] IN
      IF ArrIncludes(eClosure, nextState)
        THEN eClosureScan(state, transitions, ti, ni + 1, eClosure, depth)
      ELSE LET subEClosure == fetch_E_Closure_at(nextState, transitions, depth + 1) IN
        IF subEClosure.threw THEN RangeError
        ELSE eClosureScan(state, transitions, ti, ni + 1,
                          PushAllNew(Append(eClosure, nextState), subEClosure.value),
                          depth)

fetch_E_Closure_at(state, transitions, depth) ==
  IF depth > MaxCallDepth THEN RangeError
  ELSE eClosureScan(state, transitions, 1, 1, <<state>>, depth)

fetch_E_Closure(state, transitions) == fetch_E_Closure_at(state, transitions, 1)

\* the targets lambdaClosureNFA computes for one state and one symbol
RECURSIVE closuresOf(_, _, _)
closuresOf(nextStates, transitions, symbolNextStates) ==
  IF nextStates = <<>> THEN Returned(symbolNextStates)
  ELSE LET closure == fetch_E_Closure(Head(nextStates), transitions) IN
    IF closure.threw THEN RangeError
    ELSE closuresOf(Tail(nextStates), transitions,
                    PushAllNew(symbolNextStates, closure.value))

RECURSIVE symbolTargets(_, _, _, _)
symbolTargets(stateClosure, symbol, transitions, symbolNextStates) ==
  IF stateClosure = <<>> THEN Returned(symbolNextStates)
  ELSE LET nextStates == findNextStates(Head(stateClosure), symbol, transitions)
           added == closuresOf(nextStates, transitions, symbolNextStates)
       IN IF added.threw THEN RangeError
          ELSE symbolTargets(Tail(stateClosure), symbol, transitions, added.value)

\* the transitions pushed for one state, one per alphabet symbol from si on
RECURSIVE closedRow(_, _, _, _, _)
closedRow(state, stateClosure, nfa, si, acc) ==
  IF si > Len(nfa.alphabet) THEN Returned(acc)
  ELSE LET symbol == nfa.alphabet[si]
           targets == symbolTargets(stateClosure, symbol, nfa.transitions, <<>>)
       IN IF targets.threw THEN RangeError
          ELSE closedRow(state, stateClosure, nfa, si + 1,
                         Append(acc, Transition(state, ArrSort(targets.value), symbol)))

RECURSIVE closedTransitions(_, _, _)
closedTransitions(nfa, qi, acc) ==
  IF qi > Len(nfa.states) THEN Returned(acc)
  ELSE LET state == nfa.states[qi]
           stateClosure == fetch_E_Closure(state, nfa.transitions)
       IN IF stateClosure.threw THEN RangeError
          ELSE LET row == closedRow(state, stateClosure.value, nfa, 1, acc) IN
            IF row.threw THEN RangeError
            ELSE closedTransitions(nfa, qi + 1, row.value)

\* mutant of lambdaClosureNFA: no early return for an automaton without
\* lambda transitions
lambdaClosureNFA_noEarlyReturn(nfa) ==
  LET nfaClosedTransitions == closedTransitions(nfa, 1, <<>>)
      initialStateClosure == fetch_E_Closure(nfa.initialState, nfa.transitions)
  IN IF nfaClosedTransitions.threw \/ initialStateClosure.threw THEN RangeError
     ELSE LET initClosureHasFinalState ==
                \E i \in 1..Len(nfa.finalStates) :
                  ArrIncludes(initialStateClosure.value, nfa.finalStates[i])
              finalStates == IF initClosureHasFinalState
                               THEN Append(nfa.finalStates, nfa.initialState)
                               ELSE nfa.finalStates
          IN Returned(NFA(nfa.initialState, finalStates, nfa.states,
                          nfa.alphabet, nfaClosedTransitions.value))

lambdaClosureNFA(nfa) ==
  LET hasLambda == \E i \in 1..Len(nfa.transitions) :
                     nfa.transitions[i].symbol = "" \/ nfa.transitions[i].symbol = LambdaGlyph
  IN IF ~hasLambda THEN Returned(nfa)
     ELSE LET nfaClosedTransitions == closedTransitions(nfa, 1, <<>>)
              initialStateClosure == fetch_E_Closure(nfa.initialState, nfa.transitions)
          IN IF nfaClosedTransitions.threw \/ initialStateClosure.threw THEN RangeError
             ELSE LET initClosureHasFinalState ==
                        \E i \in 1..Len(nfa.finalStates) :
                          ArrIncludes(initialStateClosure.value, nfa.finalStates[i])
                      finalStates == IF initClosureHasFinalState
                                       THEN Append(nfa.finalStates, nfa.initialState)
                                       ELSE nfa.finalStates
                  IN Returned(NFA(nfa.initialState, finalStates, nfa.states,
                                  nfa.alphabet, nfaClosedTransitions.value))

(***************************************************************************)
(* Subset constructor.                                                     *)
(***************************************************************************)
\* nextStatesUnion for the NFA states of one DFA state and one symbol
RECURSIVE nextStatesUnionOf(_, _, _, _)
nextStatesUnionOf(states, symbol, transitions, nextStatesUnion) ==
  IF states = <<>> THEN nextStatesUnion
  ELSE nextStatesUnionOf(Tail(states), symbol, transitions,
         PushAllNew(nextStatesUnion, findNextStates(Head(states), symbol, transitions)))

\* mutant of trapLoops: a self-loop for the first symbol only
trapLoops_firstOnly(alphabet) ==
  IF alphabet = <<>> THEN <<>> ELSE <<Transition(TRAP, <<TRAP>>, Head(alphabet))>>

\* TRAP's self-loops, one per alphabet symbol
RECURSIVE trapLoops(_)
trapLoops(alphabet) ==
  IF alphabet = <<>> THEN <<>>
  ELSE <<Transition(TRAP, <<TRAP>>, Head(alphabet))>> \o trapLoops(Tail(alphabet))

\* mutant of expandSymbol: no test whether dfaStates includes TRAP already
expandSymbol_trapEveryTime(nfa, state, states, symbol, loc) ==
  LET nextStatesUnion == nextStatesUnionOf(states, symbol, nfa.transitions, <<>>)
      combinedStatesUnion == combineStates(nextStatesUnion)
  IN IF combinedStatesUnion # <<>>
       THEN LET pushed == Append(loc.dfaTransitions,
                                 Transition(state, <<combinedStatesUnion>>, symbol))
            IN IF ~ArrIncludes(loc.dfaStates, combinedStatesUnion)
                 THEN [loc EXCEPT !.dfaTransitions = pushed,
                                  !.dfaStates = Append(@, combinedStatesUnion),
                                  !.stack = Append(@, combinedStatesUnion)]
                 ELSE [loc EXCEPT !.dfaTransitions = pushed]
       ELSE [loc EXCEPT !.dfaTransitions =
                          Append(@ \o trapLoops(nfa.alphabet),
                                 Transition(state, <<TRAP>>, symbol)),
                        !.dfaStates = Append(@, TRAP)]

\* the body of nfa.alphabet.forEach for one symbol of the popped state; loc
\* holds the local variables of generateDFA
expandSymbol(nfa, state, states, symbol, loc) ==
  LET nextStatesUnion == nextStatesUnionOf(states, symbol, nfa.transitions, <<>>)
      combinedStatesUnion == combineStates(nextStatesUnion)
  IN IF combinedStatesUnion # <<>>
       THEN LET pushed == Append(loc.dfaTransitions,
                                 Transition(state, <<combinedStatesUnion>>, symbol))
            IN IF ~ArrIncludes(loc.dfaStates, combinedStatesUnion)
                 THEN [loc EXCEPT !.dfaTransitions = pushed,
                                  !.dfaStates = Append(@, combinedStatesUnion),
                                  !.stack = Append(@, combinedStatesUnion)]
                 ELSE [loc EXCEPT !.dfaTransitions = pushed]
       ELSE LET withTrap ==
                  IF ~ArrIncludes(loc.dfaStates, TRAP)
                    THEN [loc EXCEPT !.dfaTransitions = @ \o trapLoops(nfa.alphabet),
                                     !.dfaStates = Append(@, TRAP)]
                    ELSE loc
            IN [withTrap EXCEPT !.dfaTransitions =
                                  Append(@, Transition(state, <<TRAP>>, symbol))]

RECURSIVE expandSymbols(_, _, _, _, _)
expandSymbols(nfa, state, states, si, loc) ==
  IF si > Len(nfa.alphabet) THEN loc
  ELSE expandSymbols(nfa, state, states, si + 1,
                     expandSymbol(nfa, state, states, nfa.alphabet[si], loc))

\* mutant of loopIteration: the step limit is tested after the popped state
\* has been expanded
loopIteration_lateInterrupt(nfa, stepCounterStop, loc) ==
  LET state == loc.stack[Len(loc.stack)]
      popped == [loc EXCEPT !.stack = SubSeq(@, 1, Len(@) - 1),
                            !.stepCounter = @ + 1,
                            !.state = state]
      states == IF isMultiState(state) THEN separateStates(state).arr ELSE <<state>>
      expanded == expandSymbols(nfa, state, states, 1, popped)
  IN IF popped.stepCounter = stepCounterStop
       THEN [expanded EXCEPT !.stepInterrupt = TRUE]
       ELSE expanded

\* mutant of loopIteration: the step counter is compared with the limit
\* before it is incremented
loopIteration_postIncrement(nfa, stepCounterStop, loc) ==
  LET state == loc.stack[Len(loc.stack)]
      popped == [loc EXCEPT !.stack = SubSeq(@, 1, Len(@) - 1),
                            !.stepCounter = @ + 1,
                            !.state = state]
  IN IF loc.stepCounter = stepCounterStop
       THEN [popped EXCEPT !.stepInterrupt = TRUE]
       ELSE LET states == IF isMultiState(state) THEN separateStates(state).arr
                          ELSE <<state>>
            IN expandSymbols(nfa, state, states, 1, popped)

\* one iteration of the while loop: pop, count the step, interrupt or expand
loopIteration(nfa, stepCounterStop, loc) ==
  LET state == loc.stack[Len(loc.stack)]
      popped == [loc EXCEPT !.stack = SubSeq(@, 1, Len(@) - 1),
                            !.stepCounter = @ + 1,
                            !.state = state]
  IN IF popped.stepCounter = stepCounterStop
       THEN [popped EXCEPT !.stepInterrupt = TRUE]
       ELSE LET states == IF isMultiState(state) THEN separateStates(state).arr
                          ELSE <<state>>
            IN expandSymbols(nfa, state, states, 1, popped)

RECURSIVE whileLoop(_, _, _)
whileLoop(nfa, stepCounterStop, loc) ==
  IF loc.stack = <<>> \/ loc.stepInterrupt THEN loc
  ELSE whileLoop(nfa, stepCounterStop, loopIteration(nfa, stepCounterStop, loc))

\* dfaFinalStates: the formatted names of the DFA states found final
RECURSIVE dfaFinalStatesOf(_, _)
dfaFinalStatesOf(dfaStates, finalStates) ==
  IF dfaStates = <<>> THEN <<>>
  ELSE LET dfaState == Head(dfaStates)
           dfaSepStates == separateStates(dfaState)
           isFinal == \E i \in 1..Len(finalStates) :
                        SepIncludes(dfaSepStates, finalStates[i])
       IN (IF isFinal THEN <<formatDotState(dfaState)>> ELSE <<>>)
            \o dfaFinalStatesOf(Tail(dfaStates), finalStates)

\* the local variables of generateDFA when the loop is entered
loopEntry(nfa) ==
  [dfaStates |-> <<nfa.initialState>>, dfaTransitions |-> <<>>,
   stack |-> <<nfa.initialState>>, stepCounter |-> 0, stepInterrupt |-> FALSE,
   state |-> <<>>]

\* generateDFA(nfa, stepCounterStop): the automaton returned, the local
\* variables at the return and the lambda-free NFA that was converted; or
\* the RangeError thrown out of lambdaClosureNFA
generateDFA(nfa0, stepCounterStop) ==
  LET closed == lambdaClosureNFA(nfa0) IN
  IF closed.threw THEN [threw |-> TRUE, dfa |-> <<>>, loc |-> <<>>, nfa |-> <<>>]
  ELSE LET nfa == closed.value
           loc == whileLoop(nfa, stepCounterStop, loopEntry(nfa))
       IN [threw |-> FALSE,
           dfa |-> NFA(nfa.initialState,
                       dfaFinalStatesOf(loc.dfaStates, nfa.finalStates),
                       loc.dfaStates, nfa.alphabet, loc.dfaTransitions),
           loc |-> loc,
           nfa |-> nfa]

(***************************************************************************)
(* Minimizer.                                                              *)
(***************************************************************************)
\* mutant of mergeStates: the incoming edges of `remove` are not redirected
mergeStates_noRedirect(dfa, remove, replace) ==
  LET keepState(s) == formatDotState(s) # formatDotState(remove)
      keepTransition(t) == t.state # remove
  IN NFA(dfa.initialState, SelectSeq(dfa.finalStates, keepState),
         SelectSeq(dfa.states, keepState), dfa.alphabet,
         SelectSeq(dfa.transitions, keepTransition))

\* the three filters that delete `remove` and redirect its incoming edges
mergeStates(dfa, remove, replace) ==
  LET keepState(s) == formatDotState(s) # formatDotState(remove)
      keepTransition(t) == t.state # remove
      kept == SelectSeq(dfa.transitions, keepTransition)
      redirected == [i \in 1..Len(kept) |->
                       IF Len(kept[i].nextStates) > 0 /\ kept[i].nextStates[1] = remove
                         THEN [kept[i] EXCEPT !.nextStates[1] = replace]
                         ELSE kept[i]]
  IN NFA(dfa.initialState, SelectSeq(dfa.finalStates, keepState),
         SelectSeq(dfa.states, keepState), dfa.alphabet, redirected)

\* the test of the inner callback: another state, of the same acceptance
\* class, with equal successor arrays on every symbol
statesEqual(dfa, state, state2) ==
  /\ state # state2
  /\ ArrIncludes(dfa.finalStates, formatDotState(state))
       = ArrIncludes(dfa.finalStates, formatDotState(state2))
  /\ \A i \in 1..Len(dfa.alphabet) :
       arraysEqual(findNextStates(state, dfa.alphabet[i], dfa.transitions),
                   findNextStates(state2, dfa.alphabet[i], dfa.transitions))

\* the inner callback for the pair (state, state2); m holds the automaton
\* being mutated and the deletions logged so far
comparePair(m, state, state2) ==
  IF ~statesEqual(m.dfa, state, state2) THEN m
  ELSE LET remove == IF m.dfa.initialState = state THEN state2 ELSE state
           replace == IF m.dfa.initialState = state THEN state ELSE state2
       IN IF remove = TRAP THEN m
          ELSE [dfa |-> mergeStates(m.dfa, remove, replace),
                log |-> Append(m.log, [remove |-> remove, replace |-> replace])]

\* dfa.states.forEach(state2 => ...) over the array dfa.states named when the
\* inner loop started
RECURSIVE innerForEach(_, _, _, _)
innerForEach(m, state, states, j) ==
  IF j > Len(states) THEN m
  ELSE innerForEach(comparePair(m, state, states[j]), state, states, j + 1)

\* dfa.states.forEach(state => ...) over the array dfa.states named at the call
RECURSIVE outerForEach(_, _, _)
outerForEach(m, states, i) ==
  IF i > Len(states) THEN m
  ELSE outerForEach(innerForEach(m, states[i], m.dfa.states, 1), states, i + 1)

\* the automaton after minimizeDFA(dfa), with the log of its deletions
minimizeDFA(dfa) == outerForEach([dfa |-> dfa, log |-> <<>>], dfa.states, 1)

(***************************************************************************)
(* Input boundary: the form and fetchUserInput.                            *)
(***************************************************************************)
\* the state names typed into the form: as the source of a row and as the
\* initial state, and as the target of a row
SourceOrder == <<<<"A">>, <<"B">>, <<"A", "B">>>>
TargetOrder == <<<<"A">>, <<"B">>>>
StateNames == Elems(SourceOrder)
\* the contents of the final-states field
FinalStatesInputs == {<<"A">>, <<"B">>, <<"A", "B">>, <<"A", ",", "B">>}
\* the contents of a symbol field; a blank field stands for lambda
SymbolOrder == <<"0", "1", "">>
\* the rows of the form are taken from the catalogue of the rows that can be
\* filled in with these names and symbols, in the order of the catalogue
CatalogueSize == Len(SourceOrder) * Len(SymbolOrder) * Len(TargetOrder)
CatalogueRow(i) ==
  [currentState |-> SourceOrder[((i - 1) \div (Len(SymbolOrder) * Len(TargetOrder))) + 1],
   inputSymbol |-> SymbolOrder[(((i - 1) \div Len(TargetOrder)) % Len(SymbolOrder)) + 1],
   nextState |-> TargetOrder[((i - 1) % Len(TargetOrder)) + 1]]

\* the increasing sequences of at most n catalogue indices
RECURSIVE IncreasingUpTo(_)
IncreasingUpTo(n) ==
  IF n = 0 THEN {<<>>}
  ELSE LET shorter == IncreasingUpTo(n - 1)
       IN shorter \cup
          UNION {{Append(q, i) :
                    i \in (IF q = <<>> THEN 1 ELSE q[Len(q)] + 1)..CatalogueSize} :
                 q \in {r \in shorter : Len(r) = n - 1}}

\* the row lists of the forms with at most MaxRows rows
RowLists == {[i \in 1..Len(q) |-> CatalogueRow(q[i])] : q \in IncreasingUpTo(MaxRows)}

\* what fetchUserInput collects from the rows: transitions, alphabet, states
RECURSIVE collectRows(_, _)
collectRows(rows, acc) ==
  IF rows = <<>> THEN acc
  ELSE LET row == Head(rows)
           inputSymbol == IF row.inputSymbol = "" THEN LambdaGlyph ELSE row.inputSymbol
       IN IF StrIncludes(row.currentState, <<"{">>) \/ StrIncludes(row.nextState, <<"{">>)
            THEN collectRows(Tail(rows), acc)
            ELSE collectRows(Tail(rows),
                   [transitions |-> Append(acc.transitions,
                        Transition(row.currentState, <<row.nextState>>, inputSymbol)),
                    alphabet |-> IF inputSymbol # LambdaGlyph
                                   THEN PushNew(acc.alphabet, inputSymbol)
                                   ELSE acc.alphabet,
                    states |-> PushNew(PushNew(acc.states, row.currentState),
                                       row.nextState)])

\* fetchUserInput() followed by new NFA(...): isNull when the form is
\* rejected, the automaton handed to the engine otherwise
fetchUserInput(initialState, finalStates, productionRows) ==
  LET got == collectRows(productionRows,
                         [transitions |-> <<>>, alphabet |-> <<>>, states |-> <<>>])
  IN IF \/ initialState = <<>> \/ finalStates = <<>>
        \/ StrIncludes(initialState, <<"{">>) \/ StrIncludes(finalStates, <<"{">>)
        \/ got.transitions = <<>>
       THEN [isNull |-> TRUE, nfa |-> <<>>]
       ELSE [isNull |-> FALSE,
             nfa |-> NFA(initialState,
                         IF StrIncludes(finalStates, <<",">>)
                           THEN StrSplit(finalStates) ELSE <<finalStates>>,
                         got.states, got.alphabet, got.transitions)]

(***************************************************************************)
(* The program: the form, the engine's global and what the two click       *)
(* handlers leave behind.                                                  *)
(***************************************************************************)
VARIABLES
  initialStateInput,          \* #initialStateInput
  finalStatesInput,           \* #finalStatesInput
  rows,                       \* the .production-row elements
  LAST_COMPLETED_STEP_COUNT,  \* the engine's global
  stepButtons,                \* number of buttons in #step-div
  outcome,                    \* how the last handler ended
  stepCounterStop,            \* the limit of the last generateDFA call
  nfa,                        \* the lambda-free NFA of the last generateDFA call
  loc,                        \* generateDFA's local variables at its return
  dfa,                        \* the automaton the last generateDFA call returned
  minDFA,                     \* the automaton minimizeDFA last returned
  minLog,                     \* the deletions minimizeDFA last logged
  closurePc,                  \* where a traced fetch_E_Closure call stands
  callStack,                  \* its nested activations, the innermost last
  closureResult               \* what the outermost activation returned

vars == <<initialStateInput, finalStatesInput, rows, LAST_COMPLETED_STEP_COUNT,
          stepButtons, outcome, stepCounterStop, nfa, loc, dfa, minDFA, minLog,
          closurePc, callStack, closureResult>>

form == <<initialStateInput, finalStatesInput, rows>>
handlerVars == <<LAST_COMPLETED_STEP_COUNT, stepButtons, outcome, stepCounterStop, nfa,
                 loc, dfa, minDFA, minLog>>
closureVars == <<closurePc, callStack, closureResult>>

Init ==
  /\ initialStateInput \in StateNames
  /\ finalStatesInput \in FinalStatesInputs
  /\ rows \in RowLists
  /\ LAST_COMPLETED_STEP_COUNT = 0
  /\ stepButtons = 0
  /\ outcome = "idle"
  /\ stepCounterStop = 0
  /\ nfa = <<>>
  /\ loc = <<>>
  /\ dfa = <<>>
  /\ minDFA = <<>>
  /\ minLog = <<>>
  /\ closurePc = "off"
  /\ callStack = <<>>
  /\ closureResult = <<>>

\* the verify-update click handler: fetchUserInput, generateDFA without a
\* limit, the step buttons, minimizeDFA.  A rejected form ends the handler
\* early; an exception thrown by generateDFA ends it where it is thrown.
VerifyUpdate ==
  \E userInput \in {fetchUserInput(initialStateInput, finalStatesInput, rows)} :
    /\ IF userInput.isNull
         THEN /\ outcome' = "rejected"
              /\ UNCHANGED <<LAST_COMPLETED_STEP_COUNT, stepButtons, stepCounterStop,
                             nfa, loc, dfa, minDFA, minLog>>
         ELSE \E g \in {generateDFA(userInput.nfa, -1)} :
           IF g.threw
             THEN /\ outcome' = "threw"
                  /\ stepCounterStop' = -1
                  /\ UNCHANGED <<LAST_COMPLETED_STEP_COUNT, stepButtons, nfa, loc, dfa,
                                 minDFA, minLog>>
             ELSE \E m \in {minimizeDFA(g.dfa)} :
               /\ outcome' = "returned"
               /\ stepCounterStop' = -1
               /\ nfa' = g.nfa
               /\ loc' = g.loc
               /\ dfa' = g.dfa
               /\ LAST_COMPLETED_STEP_COUNT' =
                    IF g.loc.stepInterrupt THEN LAST_COMPLETED_STEP_COUNT
                    ELSE g.loc.stepCounter
               /\ stepButtons' = LAST_COMPLETED_STEP_COUNT' + 1
               /\ minDFA' = m.dfa
               /\ minLog' = m.log
    /\ UNCHANGED <<form, closureVars>>

\* mutant of StepClick: LAST_COMPLETED_STEP_COUNT is written after an
\* interrupted run too
StepClick_alwaysRecords(step) ==
  \E userInput \in {fetchUserInput(initialStateInput, finalStatesInput, rows)} :
    /\ ~userInput.isNull
    /\ \E g \in {generateDFA(userInput.nfa, step)} :
         /\ ~g.threw
         /\ outcome' = "returned"
         /\ stepCounterStop' = step
         /\ nfa' = g.nfa
         /\ loc' = g.loc
         /\ dfa' = g.dfa
         /\ LAST_COMPLETED_STEP_COUNT' = g.loc.stepCounter
    /\ UNCHANGED <<form, stepButtons, minDFA, minLog, closureVars>>

\* the click handler of step button `step`: fetchUserInput, generateDFA with
\* that limit
StepClick(step) ==
  \E userInput \in {fetchUserInput(initialStateInput, finalStatesInput, rows)} :
    /\ ~userInput.isNull
    /\ \E g \in {generateDFA(userInput.nfa, step)} :
         /\ ~g.threw
         /\ outcome' = "returned"
         /\ stepCounterStop' = step
         /\ nfa' = g.nfa
         /\ loc' = g.loc
         /\ dfa' = g.dfa
         /\ LAST_COMPLETED_STEP_COUNT' =
              IF g.loc.stepInterrupt THEN LAST_COMPLETED_STEP_COUNT
              ELSE g.loc.stepCounter
    /\ UNCHANGED <<form, stepButtons, minDFA, minLog, closureVars>>

Next ==
  \/ VerifyUpdate
  \/ \E step \in 1..stepButtons : StepClick(step)

Spec == Init /\ [][Next]_vars

(***************************************************************************)
(* One call of fetch_E_Closure, activation by activation.  An activation   *)
(* holds its argument `state`, its eClosure array and its place in the two *)
(* nested forEach loops: transition ti, next state ni.  The transitions    *)
(* are those fetchUserInput collects from the rows of the form.            *)
(***************************************************************************)
closureTransitions ==
  collectRows(rows, [transitions |-> <<>>, alphabet |-> <<>>, states |-> <<>>]).transitions

activation(state) == [state |-> state, eClosure |-> <<state>>, ti |-> 1, ni |-> 1]

\* the loops of the activation are over
loopsDone(f) == f.ti > Len(closureTransitions)

\* the activation stands at a next state that eClosure does not include
atRecursiveCall(f) ==
  /\ ~loopsDone(f)
  /\ LET t == closureTransitions[f.ti] IN
       /\ isLambdaSymbol(t.symbol)
       /\ f.state = t.state
       /\ f.ni <= Len(t.nextStates)
       /\ ~ArrIncludes(f.eClosure, t.nextStates[f.ni])

\* the place after the current one in the nested loops
nextPlace(f) ==
  LET t == closureTransitions[f.ti] IN
  IF isLambdaSymbol(t.symbol) /\ f.state = t.state /\ f.ni <= Len(t.nextStates)
    THEN [f EXCEPT !.ni = @ + 1]
    ELSE [f EXCEPT !.ti = @ + 1, !.ni = 1]

InitClosure ==
  /\ initialStateInput \in StateNames
  /\ finalStatesInput \in FinalStatesInputs
  /\ rows \in RowLists
  /\ LAST_COMPLETED_STEP_COUNT = 0
  /\ stepButtons = 0
  /\ outcome = "idle"
  /\ stepCounterStop = 0
  /\ nfa = <<>>
  /\ loc = <<>>
  /\ dfa = <<>>
  /\ minDFA = <<>>
  /\ minLog = <<>>
  /\ closurePc = "running"
  /\ callStack = <<activation(initialStateInput)>>
  /\ closureResult = <<>>

\* a transition that does not apply, or a next state already included
ClosureSkip ==
  /\ closurePc = "running"
  /\ LET f == callStack[Len(callStack)] IN
       /\ ~loopsDone(f)
       /\ ~atRecursiveCall(f)
       /\ callStack' = [callStack EXCEPT ![Len(callStack)] = nextPlace(f)]
  /\ UNCHANGED <<form, handlerVars, closurePc, closureResult>>

\* eClosure.push(nextState); fetch_E_Closure(nextState, transitions)
ClosureCall ==
  /\ closurePc = "running"
  /\ Len(callStack) < MaxCallDepth
  /\ LET f == callStack[Len(callStack)] IN
       /\ atRecursiveCall(f)
       /\ LET nextState == closureTransitions[f.ti].nextStates[f.ni] IN
            callStack' = Append([callStack EXCEPT ![Len(callStack)].eClosure =
                                                    Append(@, nextState)],
                                activation(nextState))
  /\ UNCHANGED <<form, handlerVars, closurePc, closureResult>>

\* the same call with the call stack exhausted: RangeError
ClosureOverflow ==
  /\ closurePc = "running"
  /\ Len(callStack) >= MaxCallDepth
  /\ atRecursiveCall(callStack[Len(callStack)])
  /\ closurePc' = "threw"
  /\ UNCHANGED <<form, handlerVars, callStack, closureResult>>

\* mutant of ClosureReturn: the caller does not add the closure returned to it
ClosureReturn_dropsSubClosure ==
  /\ closurePc = "running"
  /\ LET n == Len(callStack)
         f == callStack[n]
     IN /\ loopsDone(f)
        /\ IF n = 1
             THEN /\ closurePc' = "returned"
                  /\ closureResult' = f.eClosure
                  /\ callStack' = <<>>
             ELSE /\ callStack' =
                       [SubSeq(callStack, 1, n - 1) EXCEPT ![n - 1].ni = @ + 1]
                  /\ UNCHANGED <<closurePc, closureResult>>
  /\ UNCHANGED <<form, handlerVars>>

\* return eClosure: to the caller, which adds what it does not include, or
\* out of the outermost activation
ClosureReturn ==
  /\ closurePc = "running"
  /\ LET n == Len(callStack)
         f == callStack[n]
     IN /\ loopsDone(f)
        /\ IF n = 1
             THEN /\ closurePc' = "returned"
                  /\ closureResult' = f.eClosure
                  /\ callStack' = <<>>
             ELSE /\ callStack' =
                       [SubSeq(callStack, 1, n - 1) EXCEPT
                          ![n - 1] = [@ EXCEPT !.eClosure = PushAllNew(@, f.eClosure),
                                               !.ni = @ + 1]]
                  /\ UNCHANGED <<closurePc, closureResult>>
  /\ UNCHANGED <<form, handlerVars>>

NextClosure ==
  \/ ClosureSkip
  \/ ClosureCall
  \/ ClosureOverflow
  \/ ClosureReturn

SpecClosure == InitClosure /\ [][NextClosure]_vars

(***************************************************************************)
(* Reference semantics, for stating the properties.                        *)
(***************************************************************************)
\* the words over an alphabet of length at most n
RECURSIVE WordsUpTo(_, _)
WordsUpTo(alphabet, n) ==
  IF n = 0 THEN {<<>>}
  ELSE LET shorter == WordsUpTo(alphabet, n - 1)
       IN shorter \cup {Append(w, a) : w \in {v \in shorter : Len(v) = n - 1},
                                       a \in Elems(alphabet)}

\* the states one transition on `symbol` away from a set of states
Move(S, symbol, transitions) ==
  UNION {Elems(transitions[i].nextStates) :
           i \in {j \in 1..Len(transitions) :
                    transitions[j].state \in S /\ transitions[j].symbol = symbol}}

\* the states any number of lambda transitions away from a set of states
RECURSIVE LambdaReach(_, _)
LambdaReach(S, transitions) ==
  LET more == S \cup Move(S, LambdaGlyph, transitions) \cup Move(S, "", transitions)
  IN IF more = S THEN S ELSE LambdaReach(more, transitions)

\* the states an automaton can be in after reading a word from a set of states
RECURSIVE StatesAfter(_, _, _)
StatesAfter(S, word, transitions) ==
  IF word = <<>> THEN LambdaReach(S, transitions)
  ELSE StatesAfter(Move(LambdaReach(S, transitions), Head(word), transitions),
                   Tail(word), transitions)

\* an NFA, with or without lambda transitions, accepts a word
NfaAccepts(automaton, word) ==
  StatesAfter({automaton.initialState}, word, automaton.transitions)
    \cap Elems(automaton.finalStates) # {}

\* a state of a DFA is accepting as the engine reads its finalStates: by the
\* formatted name (minimizeDFA, toDotString)
IsFinalIn(automaton, state) == ArrIncludes(automaton.finalStates, formatDotState(state))

\* a DFA accepts a word from one of its states
DfaAcceptsFrom(automaton, state, word) ==
  \E q \in StatesAfter({state}, word, automaton.transitions) : IsFinalIn(automaton, q)

DfaAccepts(automaton, word) == DfaAcceptsFrom(automaton, automaton.initialState, word)

\* the NFA states a DFA state stands for
Decomposition(state) ==
  IF isMultiState(state) THEN Elems(StrSplit(SubSeq(state, 2, Len(state) - 1)))
  ELSE {state}

\* every name an automaton mentions
NamesOf(automaton) ==
  Elems(automaton.states) \cup {automaton.initialState}
    \cup {automaton.transitions[i].state : i \in 1..Len(automaton.transitions)}
    \cup UNION {Elems(automaton.transitions[i].nextStates) :
                  i \in 1..Len(automaton.transitions)}

\* two states of a DFA accept the same language: words no longer than the
\* number of names decide it
SameLanguage(automaton, p, q) ==
  \A word \in WordsUpTo(automaton.alphabet, Cardinality(NamesOf(automaton))) :
    DfaAcceptsFrom(automaton, p, word) = DfaAcceptsFrom(automaton, q, word)

\* the NFA the handlers build from the form
inputNFA == fetchUserInput(initialStateInput, finalStatesInput, rows).nfa

\* the verify-update handler has run generateDFA and minimizeDFA to the end
Minimized == outcome = "returned" /\ stepCounterStop = -1
\* a generateDFA call has returned, with or without a limit
Generated == outcome = "returned"
\* the last generateDFA call was interrupted by its step limit
Interrupted == outcome = "returned" /\ loc.stepInterrupt

\* the number of transitions of an automaton from a state on a symbol
TransitionCount(automaton, state, symbol) ==
  Cardinality({i \in 1..Len(automaton.transitions) :
                 /\ automaton.transitions[i].state = state
                 /\ automaton.transitions[i].symbol = symbol})

\* the DFA states generateDFA has expanded at its return: all it discovered
\* but those still on the worklist, the one popped at the interrupting step
\* and the trap state, which is never put on the worklist
Expanded ==
  {s \in Elems(loc.dfaStates) :
     /\ ~ArrIncludes(loc.stack, s)
     /\ ~(loc.stepInterrupt /\ s = loc.state)
     /\ s # TRAP}

(***************************************************************************)
(* C1 .. C10                                                               *)
(***************************************************************************)
\* C1: the DFA generateDFA returns without a step limit accepts a word over
\* the alphabet if and only if the input NFA accepts it.
C1_DfaAcceptsWhatNfaAccepts ==
  Minimized =>
    \A word \in WordsUpTo(inputNFA.alphabet, MaxWordLen) :
      DfaAccepts(dfa, word) = NfaAccepts(inputNFA, word)

\* C2: the automaton minimizeDFA returns accepts a word if and only if the
\* DFA of the unlimited generateDFA accepted it before the minimisation.
C2_MinimizedAcceptsWhatDfaAccepts ==
  Minimized =>
    \A word \in WordsUpTo(dfa.alphabet, MaxWordLen) :
      DfaAccepts(minDFA, word) = DfaAccepts(dfa, word)

\* C3: in the DFA of an unlimited generateDFA every state of the states list
\* has, for every alphabet symbol, exactly one transition with that source
\* and symbol, and that transition has exactly one target.
C3_OneTransitionPerStateAndSymbol ==
  Minimized =>
    \A s \in Elems(dfa.states) : \A a \in Elems(dfa.alphabet) :
      /\ TransitionCount(dfa, s, a) = 1
      /\ \A i \in 1..Len(dfa.transitions) :
           dfa.transitions[i].state = s /\ dfa.transitions[i].symbol = a
             => Len(dfa.transitions[i].nextStates) = 1

\* C3 witness: an unlimited run whose DFA has two symbols, the trap state and
\* two more states, hence six transitions
C3_Witness ==
  /\ Minimized
  /\ Len(dfa.alphabet) = 2
  /\ ArrIncludes(dfa.states, TRAP)
  /\ Len(dfa.states) >= 3
  /\ Len(dfa.transitions) = 6

\* C4 as claimed: after generateDFA with any step limit every state of the
\* returned states list has exactly one successor on every alphabet symbol.
C4_EveryDiscoveredStateHasOneSuccessor ==
  Generated =>
    \A s \in Elems(dfa.states) : \A a \in Elems(dfa.alphabet) :
      Len(findNextStates(s, a, dfa.transitions)) = 1

\* C4 amended: after generateDFA with any step limit every state that was
\* expanded, and the trap state, has exactly one successor on every alphabet
\* symbol; a state still on the worklist, and the state popped at the
\* interrupting step, has none.
C4_ExpandedStatesHaveOneSuccessor ==
  Generated =>
    \A s \in Elems(dfa.states) : \A a \in Elems(dfa.alphabet) :
      Len(findNextStates(s, a, dfa.transitions)) =
        IF s \in Expanded \/ s = TRAP THEN 1 ELSE 0

\* C4 witness: an interrupted run that has expanded a state, left another on
\* the worklist and popped a third at the interrupting step
C4_Witness ==
  /\ Interrupted
  /\ dfa.alphabet # <<>>
  /\ Expanded # {}
  /\ loc.stack # <<>>
  /\ ArrIncludes(dfa.states, loc.state)

\* C5: the initial state, and the trap state when the DFA has one, are still
\* in the states list after minimizeDFA.
C5_InitialAndTrapSurvive ==
  Minimized =>
    /\ ArrIncludes(minDFA.states, dfa.initialState)
    /\ ArrIncludes(dfa.states, TRAP) => ArrIncludes(minDFA.states, TRAP)

\* C6: no two distinct states left in the states list by minimizeDFA accept
\* the same language.
C6_MinimizedIsMinimal ==
  Minimized =>
    \A p, q \in Elems(minDFA.states) : p # q => ~SameLanguage(minDFA, p, q)

\* C7: every fetch_E_Closure call terminates: as long as it has not returned
\* it can take another step.
C7_ClosureTerminates ==
  closurePc \in {"running", "threw"} => ENABLED NextClosure

\* C8: a state of the DFA generateDFA returns is recorded as final if and
\* only if the set of NFA states it stands for contains a final state of the
\* NFA, compared as whole identifiers.
C8_FinalIffDecompositionHasFinal ==
  Generated =>
    \A s \in Elems(dfa.states) :
      IsFinalIn(dfa, s) <=> (Decomposition(s) \cap Elems(nfa.finalStates) # {})

\* C9: the trap state is never a final state of the DFA generateDFA returns.
C9_TrapIsNotFinal ==
  Generated => ~(ArrIncludes(dfa.states, TRAP) /\ ArrIncludes(dfa.finalStates, TRAP))

\* C10: every expanded state and symbol with an empty successor union has a
\* transition to TRAP recorded; TRAP is in the states list at most once and
\* then has exactly one self-loop per alphabet symbol.
C10_TrapSynthesis ==
  Generated =>
    /\ \A s \in Expanded : \A a \in Elems(nfa.alphabet) :
         Move(Decomposition(s), a, nfa.transitions) = {}
           => \E i \in 1..Len(dfa.transitions) :
                dfa.transitions[i] = Transition(s, <<TRAP>>, a)
    /\ Cardinality({i \in 1..Len(dfa.states) : dfa.states[i] = TRAP}) <= 1
    /\ ArrIncludes(dfa.states, TRAP) =>
         \A a \in Elems(dfa.alphabet) :
           Cardinality({i \in 1..Len(dfa.transitions) :
                          dfa.transitions[i] = Transition(TRAP, <<TRAP>>, a)}) = 1

\* C10 witness: a run in which two expanded states lacked a successor, over
\* two symbols
C10_Witness ==
  /\ Generated
  /\ Len(dfa.alphabet) = 2
  /\ ArrIncludes(dfa.states, TRAP)
  /\ Cardinality({s \in Expanded : \E a \in Elems(nfa.alphabet) :
                    Move(Decomposition(s), a, nfa.transitions) = {}}) >= 2

(***************************************************************************)
(* C11 .. C20                                                              *)
(***************************************************************************)
\* an automaton has a lambda transition, as lambdaClosureNFA tests it
HasLambda(automaton) ==
  \E i \in 1..Len(automaton.transitions) :
    automaton.transitions[i].symbol = "" \/ automaton.transitions[i].symbol = LambdaGlyph

\* a handler has called generateDFA, which has returned or thrown
Called == outcome \in {"returned", "threw"}

\* the union of the lambda closures of the a-successors of the states in the
\* lambda closure of s
ClosedTargets(automaton, s, a) ==
  LambdaReach(Move(LambdaReach({s}, automaton.transitions), a, automaton.transitions),
              automaton.transitions)

\* C11: for every NFA with a lambda transition lambdaClosureNFA returns an
\* automaton without lambda transitions that holds, for each state s and
\* symbol a, one transition whose targets are the union of the lambda
\* closures of the a-successors of the states in the lambda closure of s.
C11_ClosureEliminatesLambda ==
  (Called /\ HasLambda(inputNFA)) =>
    /\ outcome = "returned"
    /\ \A i \in 1..Len(nfa.transitions) : ~isLambdaSymbol(nfa.transitions[i].symbol)
    /\ \A s \in Elems(nfa.states) : \A a \in Elems(nfa.alphabet) :
         /\ TransitionCount(nfa, s, a) = 1
         /\ \A i \in 1..Len(nfa.transitions) :
              nfa.transitions[i].state = s /\ nfa.transitions[i].symbol = a
                => Elems(nfa.transitions[i].nextStates) = ClosedTargets(inputNFA, s, a)

\* C12: lambdaClosureNFA applied to the automaton lambdaClosureNFA returned
\* returns an automaton with the same initial state, final states, states,
\* alphabet and transitions.
C12_ClosureIdempotent ==
  Generated =>
    \E again \in {lambdaClosureNFA(nfa)} :
      /\ ~again.threw
      /\ again.value.initialState = nfa.initialState
      /\ again.value.finalStates = nfa.finalStates
      /\ again.value.states = nfa.states
      /\ again.value.alphabet = nfa.alphabet
      /\ again.value.transitions = nfa.transitions

\* C12 witness: the first application eliminated a lambda transition and
\* made the initial state final
C12_Witness ==
  /\ Generated
  /\ HasLambda(inputNFA)
  /\ Len(nfa.finalStates) > Len(inputNFA.finalStates)

\* C13: a state minimizeDFA has merged into a surviving state is no longer
\* in the states list, is neither source nor target of a remaining
\* transition, and is absent from the final states.
C13_MergedStateIsGone ==
  Minimized =>
    \A k \in 1..Len(minLog) :
      LET remove == minLog[k].remove IN
        /\ ~ArrIncludes(minDFA.states, remove)
        /\ \A i \in 1..Len(minDFA.transitions) :
             /\ minDFA.transitions[i].state # remove
             /\ ~ArrIncludes(minDFA.transitions[i].nextStates, remove)
        /\ ~ArrIncludes(minDFA.finalStates, remove)
        /\ ~ArrIncludes(minDFA.finalStates, formatDotState(remove))

\* C13 witness: a final state with an incoming edge from a state that
\* survives was merged, and the edge now points to the state it was merged
\* into
C13_Witness ==
  /\ Minimized
  /\ \E k \in 1..Len(minLog) :
       /\ ArrIncludes(dfa.finalStates, formatDotState(minLog[k].remove))
       /\ \E i \in 1..Len(dfa.transitions) :
            /\ dfa.transitions[i].nextStates = <<minLog[k].remove>>
            /\ dfa.transitions[i].state # minLog[k].remove
            /\ \E j \in 1..Len(minDFA.transitions) :
                 minDFA.transitions[j] =
                   [dfa.transitions[i] EXCEPT !.nextStates = <<minLog[k].replace>>]

(***************************************************************************)
(* The subset construction with the worklist explored in any order: the    *)
(* loop of generateDFA, without a step limit, taking any pending state     *)
(* where the engine pops the most recently pushed one.                     *)
(***************************************************************************)
\* mutant of exploreAt: taking a state from inside the worklist loses the
\* states pushed after it
exploreAt_losesLaterStates(automaton, l, k) ==
  loopIteration(automaton, -1, [l EXCEPT !.stack = SubSeq(@, 1, k)])

\* one iteration of the while loop on the k-th pending state
exploreAt(automaton, l, k) ==
  LET state == l.stack[k]
      popped == [l EXCEPT !.stack = SubSeq(@, 1, k - 1) \o SubSeq(@, k + 1, Len(@)),
                          !.stepCounter = @ + 1,
                          !.state = state]
      states == IF isMultiState(state) THEN separateStates(state).arr ELSE <<state>>
  IN expandSymbols(automaton, state, states, 1, popped)

InitAnyOrder ==
  /\ initialStateInput \in StateNames
  /\ finalStatesInput \in FinalStatesInputs
  /\ rows \in RowLists
  /\ LAST_COMPLETED_STEP_COUNT = 0
  /\ stepButtons = 0
  /\ outcome = "idle"
  /\ stepCounterStop = 0
  /\ nfa = <<>>
  /\ loc = <<>>
  /\ dfa = <<>>
  /\ minDFA = <<>>
  /\ minLog = <<>>
  /\ closurePc = "off"
  /\ callStack = <<>>
  /\ closureResult = <<>>

\* generateDFA up to the loop: lambdaClosureNFA and the initial worklist
AnyOrderEnter ==
  /\ outcome = "idle"
  /\ \E userInput \in {fetchUserInput(initialStateInput, finalStatesInput, rows)} :
       /\ ~userInput.isNull
       /\ \E closed \in {lambdaClosureNFA(userInput.nfa)} :
            /\ ~closed.threw
            /\ nfa' = closed.value
            /\ loc' = loopEntry(closed.value)
  /\ outcome' = "exploring"
  /\ stepCounterStop' = -1
  /\ UNCHANGED <<form, LAST_COMPLETED_STEP_COUNT, stepButtons, dfa, minDFA, minLog,
                 closureVars>>

\* one iteration of the loop on any pending state
AnyOrderExplore ==
  /\ outcome = "exploring"
  /\ \E k \in 1..Len(loc.stack) : loc' = exploreAt(nfa, loc, k)
  /\ UNCHANGED <<form, LAST_COMPLETED_STEP_COUNT, stepButtons, outcome, stepCounterStop,
                 nfa, dfa, minDFA, minLog, closureVars>>

\* generateDFA after the loop: the final states and the automaton returned
AnyOrderReturn ==
  /\ outcome = "exploring"
  /\ loc.stack = <<>>
  /\ outcome' = "explored"
  /\ dfa' = NFA(nfa.initialState, dfaFinalStatesOf(loc.dfaStates, nfa.finalStates),
                loc.dfaStates, nfa.alphabet, loc.dfaTransitions)
  /\ LAST_COMPLETED_STEP_COUNT' = loc.stepCounter
  /\ UNCHANGED <<form, stepButtons, stepCounterStop, nfa, loc, minDFA, minLog,
                 closureVars>>

NextAnyOrder ==
  \/ AnyOrderEnter
  \/ AnyOrderExplore
  \/ AnyOrderReturn

SpecAnyOrder == InitAnyOrder /\ [][NextAnyOrder]_vars

\* the DFA the engine's own order produces for the form
stackOrderDFA == generateDFA(inputNFA, -1).dfa

\* C14: the set of states, the set of final states and the transition
\* function of the DFA of the unlimited subset construction are the same
\* whichever pending state is explored next.
C14_OrderIndependent ==
  outcome = "explored" =>
    /\ Elems(dfa.states) = Elems(stackOrderDFA.states)
    /\ Elems(dfa.finalStates) = Elems(stackOrderDFA.finalStates)
    /\ Elems(dfa.transitions) = Elems(stackOrderDFA.transitions)

\* C14 witness: an exploration that took the pending states in another order
\* than the engine does, and recorded the transitions in another order
C14_Witness ==
  /\ outcome = "explored"
  /\ Len(dfa.states) >= 3
  /\ dfa.transitions # stackOrderDFA.transitions

\* C15: with L the LAST_COMPLETED_STEP_COUNT an unlimited generateDFA run
\* records for an NFA, generateDFA with the limit L + 1 on the same NFA is
\* not interrupted and returns the states, final states and transitions of
\* the unlimited run, every limit from 1 to L is interrupted, and after any
\* of these calls LAST_COMPLETED_STEP_COUNT is still L.
C15_ReplayBoundary ==
  (Generated /\ stepCounterStop >= 1) =>
    \E unlimited \in {generateDFA(inputNFA, -1)} :
      LET L == unlimited.loc.stepCounter IN
        /\ LAST_COMPLETED_STEP_COUNT = L
        /\ stepCounterStop = L + 1 =>
             /\ ~loc.stepInterrupt
             /\ dfa.states = unlimited.dfa.states
             /\ dfa.finalStates = unlimited.dfa.finalStates
             /\ dfa.transitions = unlimited.dfa.transitions
        /\ stepCounterStop <= L => loc.stepInterrupt

\* C15 witness: the replay of a run of three steps with the limit four
C15_Witness ==
  /\ Generated
  /\ LAST_COMPLETED_STEP_COUNT = 3
  /\ stepCounterStop = 4
  /\ ~loc.stepInterrupt

(***************************************************************************)
(* The form with the reserved character typed into its fields.             *)
(***************************************************************************)
\* a name with the reserved character
BraceName == <<"{", "A">>
BraceFieldNames == {<<"A">>, BraceName}
\* the rows that can be filled in with these names
BraceRows ==
  [currentState : BraceFieldNames, inputSymbol : {"0", ""}, nextState : BraceFieldNames]

InitBrace ==
  /\ initialStateInput \in BraceFieldNames
  /\ finalStatesInput \in BraceFieldNames
  /\ rows \in UNION {[1..n -> BraceRows] : n \in 0..MaxRows}
  /\ LAST_COMPLETED_STEP_COUNT = 0
  /\ stepButtons = 0
  /\ outcome = "idle"
  /\ stepCounterStop = 0
  /\ nfa = <<>>
  /\ loc = <<>>
  /\ dfa = <<>>
  /\ minDFA = <<>>
  /\ minLog = <<>>
  /\ closurePc = "off"
  /\ callStack = <<>>
  /\ closureResult = <<>>

SpecBrace == InitBrace /\ [][Next]_vars

\* a name on the form contains the reserved character
BraceTyped ==
  \/ StrIncludes(initialStateInput, <<"{">>)
  \/ StrIncludes(finalStatesInput, <<"{">>)
  \/ \E i \in 1..Len(rows) :
       StrIncludes(rows[i].currentState, <<"{">>) \/ StrIncludes(rows[i].nextState, <<"{">>)

\* C16: when a state name on the form (initial state, final states, source
\* or target of a row) contains '{', fetchUserInput returns null, no NFA is
\* built and neither generateDFA nor minimizeDFA runs.
C16_BraceRejected ==
  (BraceTyped /\ outcome # "idle") =>
    /\ fetchUserInput(initialStateInput, finalStatesInput, rows).isNull
    /\ outcome = "rejected"
    /\ nfa = <<>> /\ dfa = <<>> /\ minDFA = <<>>

\* C17: a generateDFA call whose step counter reaches the limit stops
\* before any symbol of the state popped at that step is processed and
\* leaves LAST_COMPLETED_STEP_COUNT as it was; a call whose worklist empties
\* sets LAST_COMPLETED_STEP_COUNT to the number of states popped in the run.
C17_InterruptKeepsLastCount ==
  [][outcome' = "returned" =>
       IF loc'.stepInterrupt
         THEN /\ loc'.stepCounter = stepCounterStop'
              /\ \A i \in 1..Len(loc'.dfaTransitions) :
                   loc'.dfaTransitions[i].state # loc'.state
              /\ LAST_COMPLETED_STEP_COUNT' = LAST_COMPLETED_STEP_COUNT
         ELSE /\ loc'.stack = <<>>
              /\ loc'.stepCounter = Cardinality(Elems(loc'.dfaStates) \ {TRAP})
              /\ LAST_COMPLETED_STEP_COUNT' = loc'.stepCounter]_vars

\* C17 witness: a run interrupted at its second step, after an unlimited run
\* of three steps
C17_Witness ==
  /\ Interrupted
  /\ stepCounterStop = 2
  /\ LAST_COMPLETED_STEP_COUNT = 3
  /\ Len(loc.dfaTransitions) > 0

\* C18: whenever fetch_E_Closure(state, transitions) returns, its result has
\* no duplicates, contains state, and is exactly the set of the states
\* reachable from state by zero or more lambda transitions.
C18_ClosureIsLambdaReach ==
  closurePc = "returned" =>
    /\ \A i, j \in 1..Len(closureResult) :
         closureResult[i] = closureResult[j] => i = j
    /\ ArrIncludes(closureResult, initialStateInput)
    /\ Elems(closureResult) = LambdaReach({initialStateInput}, closureTransitions)

\* C18 witness: a call that returned three states, one of them found by a
\* nested call
C18_Witness ==
  /\ closurePc = "returned"
  /\ Len(closureResult) = 3
  /\ \E i \in 1..Len(closureTransitions) :
       /\ closureTransitions[i].state # initialStateInput
       /\ isLambdaSymbol(closureTransitions[i].symbol)

\* the automaton object the handler passed to generateDFA, as it is after
\* the call: lambdaClosureNFA pushes onto the finalStates array of its
\* argument and hands that very array to the automaton it returns, which is
\* the one generateDFA converts
passedNFA == [inputNFA EXCEPT !.finalStates = nfa.finalStates]

\* C19: lambdaClosureNFA and generateDFA leave the automaton passed to them
\* unchanged: after the call its initialState, finalStates, states, alphabet
\* and transitions are what they were before it.
C19_ArgumentUnchanged ==
  Generated =>
    /\ passedNFA.initialState = inputNFA.initialState
    /\ passedNFA.finalStates = inputNFA.finalStates
    /\ passedNFA.states = inputNFA.states
    /\ passedNFA.alphabet = inputNFA.alphabet
    /\ passedNFA.transitions = inputNFA.transitions

\* C20: separateStates is the inverse of combineStates: for a simple
\* identifier (here: each simple state of the DFA, which generateDFA hands
\* to separateStates) it returns the one-element sequence of that
\* identifier, and for two or more simple identifiers (here: those of the
\* NFA) separateStates(combineStates(S)) is the sorted sequence of S.
C20_SeparateInvertsCombine ==
  Generated =>
    /\ \A s \in Elems(dfa.states) :
         ~isMultiState(s) =>
           separateStates(s) = [isArray |-> TRUE, arr |-> <<s>>, str |-> <<>>]
    /\ \A a, b \in Elems(nfa.states) :
         a # b =>
           /\ separateStates(combineStates(<<a, b>>)).isArray
           /\ separateStates(combineStates(<<a, b>>)).arr = ArrSort(<<a, b>>)

(***************************************************************************)
(* C21 .. C22                                                              *)
(***************************************************************************)
\* C21: every automaton generateDFA returns, for any step limit, is
\* well-formed: its initial state is in its states list, the source and the
\* targets of every transition are in its states list, and every entry of
\* its finalStates is an identifier of its states list.
C21_DfaWellFormed ==
  Generated =>
    /\ ArrIncludes(dfa.states, dfa.initialState)
    /\ \A i \in 1..Len(dfa.transitions) :
         /\ ArrIncludes(dfa.states, dfa.transitions[i].state)
         /\ \A j \in 1..Len(dfa.transitions[i].nextStates) :
              ArrIncludes(dfa.states, dfa.transitions[i].nextStates[j])
    /\ \A i \in 1..Len(dfa.finalStates) : ArrIncludes(dfa.states, dfa.finalStates[i])

\* a is a prefix of b
IsPrefix(a, b) == Len(a) <= Len(b) /\ SubSeq(b, 1, Len(a)) = a

\* the states of an automaton, TRAP apart, with an outgoing transition
SourcesOf(automaton) ==
  {s \in Elems(automaton.states) \ {TRAP} :
     \E i \in 1..Len(automaton.transitions) : automaton.transitions[i].state = s}

\* C22: for a fixed NFA and every step limit k >= 1 the states list and the
\* transitions list generateDFA returns with the limit k are prefixes of
\* those it returns with the limit k + 1, and exactly k - 1 states have been
\* expanded when the limit k interrupts the run.
C22_StepsArePrefixes ==
  (Generated /\ stepCounterStop >= 1) =>
    \E later \in {generateDFA(inputNFA, stepCounterStop + 1)} :
      /\ IsPrefix(dfa.states, later.dfa.states)
      /\ IsPrefix(dfa.transitions, later.dfa.transitions)
      /\ loc.stepInterrupt =>
           /\ Cardinality(Expanded) = stepCounterStop - 1
           /\ dfa.alphabet # <<>> => Cardinality(SourcesOf(dfa)) = stepCounterStop - 1

\* C22 witness: a run interrupted at its third step, with two states
\* expanded, whose lists the limit four extends
C22_Witness ==
  /\ Interrupted
  /\ stepCounterStop = 3
  /\ Cardinality(Expanded) = 2
  /\ Len(dfa.transitions) < Len(generateDFA(inputNFA, 4).dfa.transitions)

====
